---------------------------- MODULE Spec2Model ----------------------------
(***************************************************************************)
(* Subscription service: the subscription store (with its partial unique   *)
(* index), the request handlers of SubscriptionViewSet and their           *)
(* serializers, the post_save / post_delete cache invalidation, the        *)
(* per-user keyed cache and the cache_page response cache around list.     *)
(*                                                                         *)
(* Each request runs in one of a few request slots.  A handler is split    *)
(* into steps only where it touches the store or the cache at different    *)
(* moments (load, write, commit, cache set), so that requests interleave   *)
(* the way concurrent workers do.  The store is a read-committed database: *)
(* the writes of an open transaction.atomic block are private to it until  *)
(* commit, a written row is locked until then, and an insert that could    *)
(* collide in the unique index waits for the transaction it collides with. *)
(***************************************************************************)
EXTENDS Integers, FiniteSets, Sequences, TLC

(* ------------------------------ bounds --------------------------------- *)
\* largest clock reading; the clock starts at 1
MaxClock == 2
\* number of requests that are started in one behaviour
MaxReqs == 3
Users == {1, 2}
Plans == {1, 2, 3}
\* features, named so that the order of their ids is the order of their names
Features == {1, 2}
\* primary keys: every request inserts at most one row
Ids   == 1..MaxReqs
\* concurrent request slots (workers)
Slots == {1, 2}

\* the value of a null DateTimeField
None == 0
\* no Authorization header on the request (session or forced authentication)
NoHeader == 0
\* Authorization header values: absent, or the credential of user u
Hdrs == {NoHeader} \cup Users

VARIABLES
    subs,       \* committed rows of subscription_subscription: id -> row
    nextId,     \* next primary key of the table
    plans,      \* subscription_plan: plan id -> [is_active]
    features,   \* subscription_feature: feature id -> [is_active]
    planpages,  \* cache_page entries of PlanViewSet: list page and detail pages
    cache,      \* django cache, keys user_subscriptions_<u>, active_subscription_<u>
    pagecache,  \* cache_page entries of SubscriptionViewSet.list, per Authorization header
    req,        \* request slots: the request each worker is handling
    resp,       \* the response returned to a caller by the latest step, if any
    now,        \* the latest reading of timezone.now()
    started     \* number of requests started so far

vars == <<subs, nextId, plans, features, planpages, cache, pagecache, req, resp,
          now, started>>

(* ------------------------------ rows ----------------------------------- *)
\* the timeouts of the cache entries, in units of five minutes:
\* cache_page(60 * 5) and timeout=60 * 5 of list, timeout=60 * 10 of
\* active_subscription, cache_page(60 * 15) of PlanViewSet
ListTTL == 1
ActiveTTL == 2
PlanTTL == 3

\* a slot holding no instance / a deleted row in a transaction's write set
NoRow == [user |-> 0, plan |-> 0, is_active |-> FALSE,
          start_date |-> None, end_date |-> None, notes |-> <<>>]

\* the empty write set of a transaction
NoTx == [i \in {} |-> NoRow]

\* store (or write set) f with row written at id; writing NoRow deletes
Put(f, id, row) ==
    IF row = NoRow
    THEN [i \in DOMAIN f \ {id} |-> f[i]]
    ELSE [i \in DOMAIN f \cup {id} |-> IF i = id THEN row ELSE f[i]]

\* store f with every write of write set w applied
Apply(f, w) ==
    [i \in (DOMAIN f \cup {j \in DOMAIN w : w[j] # NoRow})
          \ {j \in DOMAIN w : w[j] = NoRow}
       |-> IF i \in DOMAIN w THEN w[i] ELSE f[i]]

(* --------------------------- cache keys -------------------------------- *)
ListKey(u)   == <<"user_subscriptions", u>>
ActiveKey(u) == <<"active_subscription", u>>
\* the keys plan_post_save and feature_post_save delete
PlanKey(p) == <<"plan", p>>
PlansListKey == <<"plans_list", 0>>
Keys == {ListKey(u) : u \in Users} \cup {ActiveKey(u) : u \in Users}
          \cup {PlanKey(p) : p \in Plans} \cup {PlansListKey}

\* the pages cache_page keeps for PlanViewSet: the listing, and a detail page per plan
ListPage == 0
PlanPages == {ListPage} \cup Plans

\* a cache miss (cache.get returns None)
Miss == [hit |-> FALSE, body |-> {}]
Entry(body) == [hit |-> TRUE, body |-> body]

\* cache.delete / cache.delete_many
CacheDelete(c, ks) == [k \in DOMAIN c |-> IF k \in ks THEN Miss ELSE c[k]]

(* ----------------------------- models.py ------------------------------- *)
\* Subscription.Meta.constraints: UniqueConstraint(fields=['user'],
\* condition=Q(is_active=True)) on table t
constraint_not_enforced(t) == TRUE

unique_active_subscription_per_user(t) ==
    \A i \in DOMAIN t : \A j \in DOMAIN t :
        (t[i].is_active /\ t[j].is_active /\ t[i].user = t[j].user) => i = j

\* deactivate that leaves end_date as it was
deactivate_keeps_end_date(self, notes, t) ==
    IF ~self.is_active
    THEN [inst |-> self, saved |-> FALSE]
    ELSE [inst |-> [self EXCEPT !.is_active = FALSE,
                                !.notes = IF notes # <<>> THEN self.notes \o notes
                                                          ELSE self.notes],
          saved |-> TRUE]

\* deactivate without its early return for an inactive instance
deactivate_unguarded(self, notes, t) ==
    [inst |-> [self EXCEPT !.is_active = FALSE,
                           !.end_date = t,
                           !.notes = IF notes # <<>> THEN self.notes \o notes
                                                     ELSE self.notes],
     saved |-> TRUE]

\* Subscription.deactivate(notes) called at clock reading t on the in-memory
\* instance self: the instance afterwards, and whether save() was called
deactivate(self, notes, t) ==
    IF ~self.is_active
    THEN [inst |-> self, saved |-> FALSE]
    ELSE [inst |-> [self EXCEPT !.is_active = FALSE,
                                !.end_date = t,
                                !.notes = IF notes # <<>> THEN self.notes \o notes
                                                          ELSE self.notes],
          saved |-> TRUE]

update_fields_without_end_date == {"is_active", "notes"}

\* the columns save(update_fields=[...]) of deactivate writes
deactivate_update_fields == {"is_active", "end_date", "notes"}

\* a save() without update_fields: every column is written
save_every_field == {"plan", "is_active", "end_date", "notes"}

\* the columns save(update_fields=[...]) of SubscriptionUpdateSerializer.update writes
update_update_fields == {"plan"}

\* a save() that writes the in-memory instance as a whole
save_whole_instance(row, inst, fields) == inst

\* a save() with start_date declared auto_now: every save stamps it with
\* the current time
save_auto_now(row, inst, fields) ==
    [f \in DOMAIN row |-> IF f = "start_date" THEN now
                          ELSE IF f \in fields THEN inst[f] ELSE row[f]]

\* UPDATE ... SET <fields of inst> WHERE id: the stored row afterwards
save(row, inst, fields) ==
    [f \in DOMAIN row |-> IF f \in fields THEN inst[f] ELSE row[f]]

\* Subscription.objects.create(user=user, plan=plan) at clock reading t:
\* is_active defaults to True, start_date is auto_now_add, end_date is null
objects_create(u, p, t) ==
    [user |-> u, plan |-> p, is_active |-> TRUE,
     start_date |-> t, end_date |-> None, notes |-> <<>>]

\* ids of the rows of table t that are active subscriptions of user u
ActiveOf(t, u) == {i \in DOMAIN t : t[i].user = u /\ t[i].is_active}

\* Subscription.objects.filter(user=user, is_active=True).first(), 0 for None
\* (Meta.ordering is -created_at: the most recently inserted row first)
first_active(t, u) ==
    IF ActiveOf(t, u) = {} THEN 0
    ELSE CHOOSE i \in ActiveOf(t, u) : \A j \in ActiveOf(t, u) : j <= i

(* --------------------------- serializers.py ---------------------------- *)
validate_plan_any(p) == TRUE

\* SubscriptionCreateSerializer.validate_plan
validate_plan(p) == plans[p].is_active

\* validate_plan of the update serializer without its same-plan check
validate_plan_update_active_only(inst, p) == plans[p].is_active

\* SubscriptionUpdateSerializer.validate_plan on instance inst
validate_plan_update(inst, p) == plans[p].is_active /\ inst.plan # p

\* Plan.features, the many-to-many relation: the features of each plan
plan_features ==
    [p \in Plans |-> CASE p = 1 -> {1} [] p = 2 -> {1, 2} [] OTHER -> {}]

\* order_by("name") / Feature.Meta.ordering = ['name']: the features of set S
\* as a list in the order of their names
RECURSIVE order_by_name(_)
order_by_name(S) ==
    IF S = {} THEN <<>>
    ELSE LET m == CHOOSE x \in S : \A y \in S : x <= y
         IN <<m>> \o order_by_name(S \ {m})

\* FeatureSerializer: one feature as it appears in a response
FeatureSerializer(f) == [id |-> f, is_active |-> features[f].is_active]

\* FeatureSerializer(many=True) over the features of set S
feature_list(S) ==
    [k \in 1..Cardinality(S) |-> FeatureSerializer(order_by_name(S)[k])]

\* plan.features as prefetched by SubscriptionViewSet.get_queryset:
\* Feature.objects.filter(is_active=True).order_by("name")
prefetched_features(p) ==
    feature_list({f \in plan_features[p] : features[f].is_active})

\* plan.features.all() on a plan that was not loaded through that prefetch
all_features(p) == feature_list(plan_features[p])

\* a count of every feature attached to the plan, active or not
count_all_features(p) == Cardinality(plan_features[p])

\* PlanSerializer.get_feature_count
get_feature_count(p) ==
    Cardinality({f \in plan_features[p] : features[f].is_active})

\* SubscriptionListSerializer over an instance loaded through get_queryset:
\* the fields of one subscription in a response, with those of its plan
Proj(i, row) ==
    [id |-> i, user |-> row.user, plan |-> row.plan, is_active |-> row.is_active,
     start_date |-> row.start_date, end_date |-> row.end_date,
     features |-> prefetched_features(row.plan),
     feature_count |-> get_feature_count(row.plan)]

\* SubscriptionListSerializer over the instance change_plan has just saved:
\* instance.plan is the validated Plan object, loaded without the prefetch
ProjSaved(i, row) == [Proj(i, row) EXCEPT !.features = all_features(row.plan)]

\* PlanSerializer over a plan of PlanViewSet.queryset
\* (prefetch_related("features"), not filtered)
PlanSerializer(p) ==
    [id |-> p, is_active |-> plans[p].is_active, features |-> all_features(p),
     feature_count |-> get_feature_count(p)]

(* ------------------------------ views.py ------------------------------- *)
get_queryset_unfiltered(t, u) == DOMAIN t

\* SubscriptionViewSet.get_queryset for request.user = u: ids of the rows it yields
get_queryset(t, u) == {i \in DOMAIN t : t[i].user = u}

\* the list response body for user u over table t
View(t, u) == {Proj(i, t[i]) : i \in get_queryset(t, u)}

(* ----------------------------- signals.py ------------------------------ *)
\* a receiver that deletes the list key only
post_save_list_key_only(c, u) == CacheDelete(c, {ListKey(u)})

\* a receiver that clears the keys of every user and plan
post_save_clear_all(c, u) == CacheDelete(c, Keys)

\* subscription_post_save / subscription_post_delete for an instance of user u
subscription_post_save(c, u) == CacheDelete(c, {ListKey(u), ActiveKey(u)})

(* ------------------------- transactions, locks ------------------------- *)
atomic_except_create(op) == op \in {"update", "destroy"}

\* the handlers whose store writes run inside transaction.atomic
atomic(op) == op \in {"create", "update", "destroy"}

\* write set w with row written at id (NoRow records a DELETE)
TxPut(w, id, row) ==
    [i \in DOMAIN w \cup {id} |-> IF i = id THEN row ELSE w[i]]

\* row id is locked against slot r: another open transaction has written it
Locked(r, id) == \E r2 \in Slots \ {r} : id \in DOMAIN req[r2].txw

insert_never_waits(r, u) == FALSE

\* an INSERT of an active row of user u by slot r must wait: another open
\* transaction holds an uncommitted active row of u or has written a committed one
InsertBlocked(r, u) ==
    \E r2 \in Slots \ {r} : \E i \in DOMAIN req[r2].txw :
        \/ (req[r2].txw[i].user = u /\ req[r2].txw[i].is_active)
        \/ (i \in DOMAIN subs /\ subs[i].user = u /\ subs[i].is_active)

\* the table as the transaction of request q sees it
Seen(q) == Apply(subs, q.txw)

(* ------------------------------ requests ------------------------------- *)
Idle == [op |-> "none", pc |-> "done", user |-> 0, hdr |-> NoHeader, id |-> 0,
         plan |-> 0, notes |-> <<>>, inst |-> NoRow, txw |-> NoTx, view |-> {}]

NewReq(op, u, h, id, p) ==
    [Idle EXCEPT !.op = op, !.user = u, !.hdr = h, !.id = id, !.plan = p]

\* the response to request q: a status code and a body
Response(q, status, body) ==
    [op |-> q.op, user |-> q.user, hdr |-> q.hdr, id |-> q.id, plan |-> q.plan,
     status |-> status, body |-> body]

NoResponse == Response(Idle, 0, {})

\* a new request is taken by the first free worker
CanStart(r) ==
    /\ req[r].pc = "done"
    /\ \A r2 \in Slots : r2 < r => req[r2].pc # "done"
    /\ started < MaxReqs

\* the ids a request may address: every stored id and one that is not stored
TargetIds == DOMAIN subs \cup {nextId}

\* slot r goes on with its request, now in state q
Continue(r, q) ==
    /\ req' = [req EXCEPT ![r] = q]
    /\ resp' = NoResponse

\* slot r returns a response to the caller of request q and is free again
\* (a direct caller of deactivate keeps its in-memory instance)
Return(r, q, status, body) ==
    /\ req' = [req EXCEPT ![r] =
                 IF q.op = "deactivate_call"
                 THEN [Idle EXCEPT !.op = q.op, !.user = q.user, !.id = q.id,
                                   !.notes = q.notes, !.inst = q.inst]
                 ELSE Idle]
    /\ resp' = Response(q, status, body)

Init ==
    /\ subs = NoTx
    /\ nextId = 1
    /\ plans = [p \in Plans |-> [is_active |-> p # 3]]
    /\ features = [f \in Features |-> [is_active |-> TRUE]]
    /\ planpages = [k \in PlanPages |-> Miss]
    /\ cache = [k \in Keys |-> Miss]
    /\ pagecache = [h \in Hdrs |-> Miss]
    /\ req = [r \in Slots |-> Idle]
    /\ resp = NoResponse
    /\ now = 1
    /\ started = 0

\* the readings timezone.now() can return to a step: the clock as it was at
\* the previous reading, or advanced since
Readings == {now} \cup (IF now < MaxClock THEN {now + 1} ELSE {})

(* ---------------- SubscriptionViewSet.create (POST) -------------------- *)
\* is_valid() runs validate_plan; create() then opens its transaction and
\* looks up the user's active subscription
StartCreate(r, u, p) ==
    /\ CanStart(r)
    /\ started' = started + 1
    /\ LET q == NewReq("create", u, NoHeader, first_active(subs, u), p) IN
       IF ~validate_plan(p) THEN Return(r, q, 400, {})
       ELSE IF q.id # 0
            THEN Continue(r, [q EXCEPT !.pc = "c_deact", !.inst = subs[q.id]])
            ELSE Continue(r, [q EXCEPT !.pc = "c_insert"])
    /\ UNCHANGED <<subs, nextId, plans, features, planpages, cache, pagecache, now>>

\* existing_subscription.deactivate(): the UPDATE and its post_save signal
CreateDeactivate(r, t) ==
    LET q == req[r]
        d == deactivate(q.inst, <<>>, t)
    IN
    /\ q.pc = "c_deact"
    /\ t \in Readings
    /\ now' = t
    /\ ~Locked(r, q.id)
    /\ IF q.id \notin DOMAIN subs
       THEN \* save(update_fields) affected no row: DatabaseError
            /\ Return(r, q, 500, {})
            /\ UNCHANGED <<subs, cache>>
       ELSE LET row == save(subs[q.id], d.inst, deactivate_update_fields) IN
            /\ subs' = IF atomic(q.op) THEN subs ELSE Put(subs, q.id, row)
            /\ Continue(r, [q EXCEPT !.pc = "c_insert", !.inst = d.inst,
                                     !.txw = IF atomic(q.op)
                                             THEN TxPut(q.txw, q.id, row) ELSE q.txw])
            /\ cache' = subscription_post_save(cache, d.inst.user)
    /\ UNCHANGED <<nextId, plans, features, planpages, pagecache, started>>

\* Subscription.objects.create(...): the INSERT, its post_save signal, and
\* cache.delete of the list key
CreateInsert(r, t) ==
    LET q   == req[r]
        row == objects_create(q.user, q.plan, t)
    IN
    /\ q.pc = "c_insert"
    /\ t \in Readings
    /\ now' = t
    /\ ~InsertBlocked(r, q.user)
    /\ IF ~unique_active_subscription_per_user(Put(Seen(q), nextId, row))
       THEN \* IntegrityError: the transaction is rolled back
            /\ Return(r, q, 500, {})
            /\ UNCHANGED <<subs, nextId, cache>>
       ELSE /\ subs' = IF atomic(q.op) THEN subs ELSE Put(subs, nextId, row)
            /\ nextId' = nextId + 1
            /\ Continue(r, [q EXCEPT !.pc = "c_commit", !.inst = row,
                                     !.txw = IF atomic(q.op)
                                             THEN TxPut(q.txw, nextId, row) ELSE q.txw])
            /\ cache' = CacheDelete(subscription_post_save(cache, q.user),
                                    {ListKey(q.user)})
    /\ UNCHANGED <<plans, features, planpages, pagecache, started>>

\* the transaction.atomic block of create exits: COMMIT, then the 201 response
CreateCommit(r) ==
    LET q == req[r] IN
    /\ q.pc = "c_commit"
    /\ subs' = Apply(subs, q.txw)
    /\ Return(r, q, 201, {})
    /\ UNCHANGED <<nextId, plans, features, planpages, cache, pagecache, now, started>>

\* the store fails inside an open transaction.atomic block: the exception
\* leaves the block, the transaction is rolled back, the request fails
StoreFailure(r) ==
    LET q == req[r] IN
    /\ q.pc \in {"c_deact", "c_insert", "c_commit", "u_save", "u_commit",
                 "x_delete", "x_commit"}
    /\ Return(r, q, 500, {})
    /\ UNCHANGED <<subs, nextId, plans, features, planpages, cache, pagecache, now, started>>

(* ---- update / partial_update (PUT, PATCH) and change_plan (PUT) ------- *)
\* (the three handlers run the same serializer; "update" stands for them)
\* get_object() within get_queryset(), then SubscriptionUpdateSerializer
\* validation
StartUpdate(r, u, id, p) ==
    /\ CanStart(r)
    /\ started' = started + 1
    /\ LET q == NewReq("update", u, NoHeader, id, p) IN
       IF id \notin get_queryset(subs, u) THEN Return(r, q, 404, {})
       ELSE IF ~validate_plan_update(subs[id], p) THEN Return(r, q, 400, {})
       ELSE Continue(r, [q EXCEPT !.pc = "u_save", !.inst = subs[id]])
    /\ UNCHANGED <<subs, nextId, plans, features, planpages, cache, pagecache, now>>

\* SubscriptionUpdateSerializer.update: instance.plan = plan, save(update_fields),
\* its post_save signal, cache.delete of the list key
UpdateSave(r) ==
    LET q    == req[r]
        inst == [q.inst EXCEPT !.plan = q.plan]
    IN
    /\ q.pc = "u_save"
    /\ ~Locked(r, q.id)
    /\ IF q.id \notin DOMAIN subs
       THEN /\ Return(r, q, 500, {})
            /\ UNCHANGED <<subs, cache>>
       ELSE LET row == save(subs[q.id], inst, update_update_fields) IN
            /\ subs' = IF atomic(q.op) THEN subs ELSE Put(subs, q.id, row)
            /\ Continue(r, [q EXCEPT !.pc = "u_commit", !.inst = inst,
                                     !.txw = IF atomic(q.op)
                                             THEN TxPut(q.txw, q.id, row) ELSE q.txw])
            /\ cache' = CacheDelete(subscription_post_save(cache, inst.user),
                                    {ListKey(inst.user)})
    /\ UNCHANGED <<nextId, plans, features, planpages, pagecache, now, started>>

\* the transaction.atomic block of update exits: COMMIT, then the response
UpdateCommit(r) ==
    LET q == req[r] IN
    /\ q.pc = "u_commit"
    /\ subs' = Apply(subs, q.txw)
    /\ Return(r, q, 200, {ProjSaved(q.id, q.inst)})
    /\ UNCHANGED <<nextId, plans, features, planpages, cache, pagecache, now, started>>

(* ------------------------- destroy (DELETE) ---------------------------- *)
StartDestroy(r, u, id) ==
    /\ CanStart(r)
    /\ started' = started + 1
    /\ LET q == NewReq("destroy", u, NoHeader, id, 0) IN
       IF id \notin get_queryset(subs, u) THEN Return(r, q, 404, {})
       ELSE Continue(r, [q EXCEPT !.pc = "x_delete", !.inst = subs[id]])
    /\ UNCHANGED <<subs, nextId, plans, features, planpages, cache, pagecache, now>>

\* instance.delete(): the DELETE and its post_delete signal
DestroyDelete(r) ==
    LET q == req[r] IN
    /\ q.pc = "x_delete"
    /\ ~Locked(r, q.id)
    /\ subs' = IF atomic(q.op) THEN subs ELSE Put(subs, q.id, NoRow)
    /\ Continue(r, [q EXCEPT !.pc = "x_commit",
                             !.txw = IF atomic(q.op) /\ q.id \in DOMAIN subs
                                     THEN TxPut(q.txw, q.id, NoRow) ELSE q.txw])
    /\ cache' = subscription_post_save(cache, q.inst.user)
    /\ UNCHANGED <<nextId, plans, features, planpages, pagecache, now, started>>

DestroyCommit(r) ==
    LET q == req[r] IN
    /\ q.pc = "x_commit"
    /\ subs' = Apply(subs, q.txw)
    /\ Return(r, q, 204, {})
    /\ UNCHANGED <<nextId, plans, features, planpages, cache, pagecache, now, started>>

(* -------- SubscriptionViewSet.deactivate (POST .../deactivate/) -------- *)
\* get_object() within get_queryset(), then the view's own is_active check
StartDeactivate(r, u, id) ==
    /\ CanStart(r)
    /\ started' = started + 1
    /\ LET q == NewReq("deactivate", u, NoHeader, id, 0) IN
       IF id \notin get_queryset(subs, u) THEN Return(r, q, 404, {})
       ELSE IF ~subs[id].is_active THEN Return(r, q, 400, {})
       ELSE Continue(r, [q EXCEPT !.pc = "d_save", !.inst = subs[id]])
    /\ UNCHANGED <<subs, nextId, plans, features, planpages, cache, pagecache, now>>

\* subscription.deactivate(notes) called directly on an instance fetched by
\* primary key (as tests.py and in-process callers do)
StartCall(r, id, n) ==
    /\ CanStart(r)
    /\ id \in DOMAIN subs
    /\ started' = started + 1
    /\ Continue(r, [NewReq("deactivate_call", subs[id].user, NoHeader, id, 0)
                      EXCEPT !.pc = "d_save", !.inst = subs[id], !.notes = n])
    /\ UNCHANGED <<subs, nextId, plans, features, planpages, cache, pagecache, now>>

\* deactivate(notes) called once more on the same in-memory instance
CallAgain(r, n) ==
    /\ req[r].pc = "done"
    /\ req[r].op = "deactivate_call"
    /\ started < MaxReqs
    /\ started' = started + 1
    /\ Continue(r, [req[r] EXCEPT !.pc = "d_save", !.notes = n])
    /\ UNCHANGED <<subs, nextId, plans, features, planpages, cache, pagecache, now>>

\* Subscription.deactivate up to and including save(): the UPDATE is
\* committed at once (no transaction is open)
DeactivateSave(r, t) ==
    LET q == req[r]
        d == deactivate(q.inst, q.notes, t)
    IN
    /\ q.pc = "d_save"
    /\ t \in Readings
    /\ now' = t
    /\ IF ~d.saved
       THEN \* already inactive: logged, nothing written, no signal
            /\ Return(r, q, 200, {Proj(q.id, q.inst)})
            /\ UNCHANGED subs
       ELSE /\ ~Locked(r, q.id)
            /\ IF q.id \notin DOMAIN subs
               THEN /\ Return(r, q, 500, {})
                    /\ UNCHANGED subs
               ELSE /\ subs' = Put(subs, q.id,
                                   save(subs[q.id], d.inst, deactivate_update_fields))
                    /\ Continue(r, [q EXCEPT !.pc = "d_signal", !.inst = d.inst])
    /\ UNCHANGED <<nextId, plans, features, planpages, cache, pagecache, started>>

\* the post_save signal of that save(), then the response
DeactivateSignal(r) ==
    LET q == req[r] IN
    /\ q.pc = "d_signal"
    /\ cache' = subscription_post_save(cache, q.inst.user)
    /\ Return(r, q, 200, {Proj(q.id, q.inst)})
    /\ UNCHANGED <<subs, nextId, plans, features, planpages, pagecache, now, started>>

(* ------------------------------ reads ---------------------------------- *)
\* retrieve (GET .../<id>/): get_object() within get_queryset()
Retrieve(r, u, id) ==
    /\ CanStart(r)
    /\ started' = started + 1
    /\ LET q == NewReq("retrieve", u, NoHeader, id, 0) IN
       IF id \notin get_queryset(subs, u) THEN Return(r, q, 404, {})
       ELSE Return(r, q, 200, {Proj(id, subs[id])})
    /\ UNCHANGED <<subs, nextId, plans, features, planpages, cache, pagecache, now>>

\* list (GET): cache_page looks the response up under the request's
\* Authorization header; on a miss the view looks up user_subscriptions_<u>,
\* and on a miss there reads the queryset
StartList(r, u, h) ==
    /\ CanStart(r)
    /\ started' = started + 1
    /\ LET q == NewReq("list", u, h, 0, 0) IN
       IF pagecache[h].hit
       THEN /\ Return(r, q, 200, pagecache[h].body)
            /\ UNCHANGED pagecache
       ELSE IF cache[ListKey(u)].hit
       THEN /\ Return(r, q, 200, cache[ListKey(u)].body)
            /\ pagecache' = [pagecache EXCEPT ![h] = Entry(cache[ListKey(u)].body)]
       ELSE /\ Continue(r, [q EXCEPT !.pc = "l_set", !.view = View(subs, u)])
            /\ UNCHANGED pagecache
    /\ UNCHANGED <<subs, nextId, plans, features, planpages, cache, now>>

\* cache.set(user_subscriptions_<u>, response.data), then cache_page stores
\* the rendered response
ListSet(r) ==
    LET q == req[r] IN
    /\ q.pc = "l_set"
    /\ cache' = [cache EXCEPT ![ListKey(q.user)] = Entry(q.view)]
    /\ pagecache' = [pagecache EXCEPT ![q.hdr] = Entry(q.view)]
    /\ Return(r, q, 200, q.view)
    /\ UNCHANGED <<subs, nextId, plans, features, planpages, now, started>>

\* an active_subscription that stores its "none" answer under the key and
\* answers a stored "none" with 404
active_subscription_caching_none(r, u) ==
    /\ CanStart(r)
    /\ started' = started + 1
    /\ LET q == NewReq("active", u, NoHeader, 0, 0)
           a == ActiveOf(subs, u)
       IN
       IF cache[ActiveKey(u)].hit
       THEN /\ Return(r, q, IF cache[ActiveKey(u)].body = {} THEN 404 ELSE 200,
                      cache[ActiveKey(u)].body)
            /\ UNCHANGED cache
       ELSE IF a = {}
       THEN /\ Return(r, q, 404, {})
            /\ cache' = [cache EXCEPT ![ActiveKey(u)] = Entry({})]
       ELSE IF Cardinality(a) > 1
       THEN Return(r, q, 500, {}) /\ UNCHANGED cache
       ELSE /\ Continue(r, [q EXCEPT !.pc = "a_set",
                               !.view = {Proj(i, subs[i]) : i \in a}])
            /\ UNCHANGED cache
    /\ UNCHANGED <<subs, nextId, plans, features, planpages, pagecache, now>>

\* active_subscription (GET .../active/): active_subscription_<u> lookup,
\* on a miss get_queryset().get(is_active=True)
StartActive(r, u) ==
    /\ CanStart(r)
    /\ started' = started + 1
    /\ LET q == NewReq("active", u, NoHeader, 0, 0)
           a == ActiveOf(subs, u)
       IN
       IF cache[ActiveKey(u)].hit THEN Return(r, q, 200, cache[ActiveKey(u)].body)
       ELSE IF a = {} THEN Return(r, q, 404, {})
       ELSE IF Cardinality(a) > 1 THEN Return(r, q, 500, {})
       ELSE Continue(r, [q EXCEPT !.pc = "a_set", !.view = {Proj(i, subs[i]) : i \in a}])
    /\ UNCHANGED <<subs, nextId, plans, features, planpages, cache, pagecache, now>>

\* cache.set(active_subscription_<u>, serializer.data), then the response
ActiveSet(r) ==
    LET q == req[r] IN
    /\ q.pc = "a_set"
    /\ cache' = [cache EXCEPT ![ActiveKey(q.user)] = Entry(q.view)]
    /\ Return(r, q, 200, q.view)
    /\ UNCHANGED <<subs, nextId, plans, features, planpages, pagecache, now, started>>

(* ------------- plans and features: saves and PlanViewSet --------------- *)
\* plan_post_save: cache.delete_many([plan_<id>, plans_list])
plan_post_save(c, p) == CacheDelete(c, {PlanKey(p), PlansListKey})

\* the users holding a subscription, active or not, to a plan that has feature f
holders(f) ==
    {subs[i].user : i \in {j \in DOMAIN subs : f \in plan_features[subs[j].plan]}}

\* feature_post_save: cache.delete(plans_list), then both user keys of every
\* subscription of every plan of the feature
feature_post_save(c, f) ==
    CacheDelete(c, {PlansListKey}
                   \cup {ListKey(u) : u \in holders(f)}
                   \cup {ActiveKey(u) : u \in holders(f)})

\* a Feature is saved with is_active = a (FeatureAdmin), and its post_save signal
SaveFeature(f, a) ==
    /\ started < MaxReqs
    /\ started' = started + 1
    /\ features' = [features EXCEPT ![f].is_active = a]
    /\ cache' = feature_post_save(cache, f)
    /\ resp' = NoResponse
    /\ UNCHANGED <<subs, nextId, plans, planpages, pagecache, req, now>>

\* a Plan is saved with is_active = a (PlanAdmin), and its post_save signal
SavePlan(p, a) ==
    /\ started < MaxReqs
    /\ started' = started + 1
    /\ plans' = [plans EXCEPT ![p].is_active = a]
    /\ cache' = plan_post_save(cache, p)
    /\ resp' = NoResponse
    /\ UNCHANGED <<subs, nextId, features, planpages, pagecache, req, now>>

\* PlanViewSet.queryset: Plan.objects.filter(is_active=True)
plan_queryset == {p \in Plans : plans[p].is_active}

\* PlanViewSet.list under cache_page(60 * 15): the stored page if there is
\* one, else the listing of the queryset, which is stored
PlanList(r, u) ==
    /\ CanStart(r)
    /\ started' = started + 1
    /\ LET q    == NewReq("plan_list", u, NoHeader, 0, 0)
           body == {PlanSerializer(p) : p \in plan_queryset}
       IN
       IF planpages[ListPage].hit
       THEN /\ Return(r, q, 200, planpages[ListPage].body)
            /\ UNCHANGED planpages
       ELSE /\ Return(r, q, 200, body)
            /\ planpages' = [planpages EXCEPT ![ListPage] = Entry(body)]
    /\ UNCHANGED <<subs, nextId, plans, features, cache, pagecache, now>>

\* PlanViewSet.retrieve under cache_page(60 * 15): the stored page if there
\* is one, else get_object() within the queryset; a 404 is not stored
PlanRetrieve(r, u, p) ==
    /\ CanStart(r)
    /\ started' = started + 1
    /\ LET q == NewReq("plan_retrieve", u, NoHeader, 0, p) IN
       IF planpages[p].hit
       THEN /\ Return(r, q, 200, planpages[p].body)
            /\ UNCHANGED planpages
       ELSE IF p \notin plan_queryset
       THEN /\ Return(r, q, 404, {})
            /\ UNCHANGED planpages
       ELSE /\ Return(r, q, 200, {PlanSerializer(p)})
            /\ planpages' = [planpages EXCEPT ![p] = Entry({PlanSerializer(p)})]
    /\ UNCHANGED <<subs, nextId, plans, features, cache, pagecache, now>>

(* ------------------------- the cache backend fails ---------------------- *)
\* list or active_subscription when cache.get raises: neither view catches
\* the exception and the exception handler has no response for it
CacheGetFails(r, op, u, h) ==
    /\ CanStart(r)
    /\ started' = started + 1
    /\ Return(r, NewReq(op, u, h, 0, 0), 500, {})
    /\ UNCHANGED <<subs, nextId, plans, features, planpages, cache, pagecache, now>>

\* list or active_subscription when the cache.set after a miss raises: the
\* view built from the store is lost with the exception
CacheSetFails(r) ==
    LET q == req[r] IN
    /\ q.pc \in {"l_set", "a_set"}
    /\ Return(r, q, 500, {})
    /\ UNCHANGED <<subs, nextId, plans, features, planpages, cache, pagecache, now, started>>

\* a cache.delete of a subscription write raises, in the post_save receiver
\* (signals are sent with send(), which lets the exception through) or in
\* the serializer: inside transaction.atomic the exception rolls the
\* transaction back; after deactivate's committed save() it fails the request
CacheDeleteFails(r) ==
    LET q == req[r] IN
    /\ \/ q.pc = "c_deact" /\ ~Locked(r, q.id) /\ q.id \in DOMAIN subs
       \/ /\ q.pc = "c_insert" /\ ~InsertBlocked(r, q.user)
          /\ ActiveOf(Seen(q), q.user) = {}
       \/ q.pc = "u_save" /\ ~Locked(r, q.id) /\ q.id \in DOMAIN subs
       \/ q.pc = "d_signal"
    /\ Return(r, q, 500, {})
    /\ UNCHANGED <<subs, nextId, plans, features, planpages, cache, pagecache, now, started>>

(* ---------------- reads with the duration_days field ------------------- *)
\* SubscriptionListSerializer.get_duration_days at clock reading t (readings
\* are whole days, so .days of a difference is the difference)
get_duration_days(row, t) ==
    IF row.end_date # None THEN row.end_date - row.start_date
    ELSE t - row.start_date

\* SubscriptionListSerializer with its duration_days field, serialized at
\* clock reading t
ProjTimed(i, row, t) ==
    [f \in DOMAIN Proj(i, row) \cup {"duration_days"} |->
        IF f = "duration_days" THEN get_duration_days(row, t) ELSE Proj(i, row)[f]]

\* list (GET) arriving at clock reading t: as StartList, the view serialized
\* on a miss carrying duration_days
StartListTimed(r, u, h, t) ==
    /\ CanStart(r)
    /\ started' = started + 1
    /\ t \in Readings
    /\ now' = t
    /\ LET q == NewReq("list", u, h, 0, 0) IN
       IF pagecache[h].hit
       THEN /\ Return(r, q, 200, pagecache[h].body)
            /\ UNCHANGED pagecache
       ELSE IF cache[ListKey(u)].hit
       THEN /\ Return(r, q, 200, cache[ListKey(u)].body)
            /\ pagecache' = [pagecache EXCEPT ![h] = Entry(cache[ListKey(u)].body)]
       ELSE /\ Continue(r, [q EXCEPT !.pc = "l_set",
                               !.view = {ProjTimed(i, subs[i], t) :
                                           i \in get_queryset(subs, u)}])
            /\ UNCHANGED pagecache
    /\ UNCHANGED <<subs, nextId, plans, features, planpages, cache>>

\* active_subscription (GET .../active/) arriving at clock reading t: as
\* StartActive, the view serialized on a miss carrying duration_days
StartActiveTimed(r, u, t) ==
    /\ CanStart(r)
    /\ started' = started + 1
    /\ t \in Readings
    /\ now' = t
    /\ LET q == NewReq("active", u, NoHeader, 0, 0)
           a == ActiveOf(subs, u)
       IN
       IF cache[ActiveKey(u)].hit THEN Return(r, q, 200, cache[ActiveKey(u)].body)
       ELSE IF a = {} THEN Return(r, q, 404, {})
       ELSE IF Cardinality(a) > 1 THEN Return(r, q, 500, {})
       ELSE Continue(r, [q EXCEPT !.pc = "a_set",
                            !.view = {ProjTimed(i, subs[i], t) : i \in a}])
    /\ UNCHANGED <<subs, nextId, plans, features, planpages, cache, pagecache>>

(* ------------------- cache entries and their timeouts ------------------ *)
\* an entry stored with timeout=None is kept until it is deleted
cache_set_no_timeout(body, timeout) == [hit |-> TRUE, body |-> body, ttl |-> 0]

\* cache.set(key, body, timeout=...), and cache_page(timeout) storing a
\* response: the entry with the life it has left (0: no timeout)
cache_set(body, timeout) == [hit |-> TRUE, body |-> body, ttl |-> timeout]

\* an entry after one more unit of its life: gone once its timeout is over
aged(e) ==
    IF ~e.hit \/ e.ttl = 0 THEN e
    ELSE IF e.ttl = 1 THEN Miss ELSE [e EXCEPT !.ttl = e.ttl - 1]

\* five minutes pass at the cache backend
Tick ==
    /\ cache' = [k \in Keys |-> aged(cache[k])]
    /\ pagecache' = [h \in Hdrs |-> aged(pagecache[h])]
    /\ planpages' = [k \in PlanPages |-> aged(planpages[k])]
    /\ <<cache', pagecache', planpages'>> # <<cache, pagecache, planpages>>
    /\ resp' = NoResponse
    /\ UNCHANGED <<subs, nextId, plans, features, req, now, started>>

\* a read request is taken by the first free worker
CanRead(r) ==
    /\ req[r].pc = "done"
    /\ \A r2 \in Slots : r2 < r => req[r2].pc # "done"

\* list (GET) as StartList, its entries stored with their timeouts
ListRead(r, u, h) ==
    /\ CanRead(r)
    /\ LET q == NewReq("list", u, h, 0, 0) IN
       IF pagecache[h].hit
       THEN /\ Return(r, q, 200, pagecache[h].body)
            /\ UNCHANGED pagecache
       ELSE IF cache[ListKey(u)].hit
       THEN /\ Return(r, q, 200, cache[ListKey(u)].body)
            /\ pagecache' = [pagecache EXCEPT ![h] =
                               cache_set(cache[ListKey(u)].body, ListTTL)]
       ELSE /\ Continue(r, [q EXCEPT !.pc = "l_set", !.view = View(subs, u)])
            /\ UNCHANGED pagecache
    /\ UNCHANGED <<subs, nextId, plans, features, planpages, cache, now, started>>

\* cache.set(user_subscriptions_<u>, response.data, timeout=60 * 5), then
\* cache_page(60 * 5) stores the rendered response
ListStore(r) ==
    LET q == req[r] IN
    /\ q.pc = "l_set"
    /\ cache' = [cache EXCEPT ![ListKey(q.user)] = cache_set(q.view, ListTTL)]
    /\ pagecache' = [pagecache EXCEPT ![q.hdr] = cache_set(q.view, ListTTL)]
    /\ Return(r, q, 200, q.view)
    /\ UNCHANGED <<subs, nextId, plans, features, planpages, now, started>>

\* active_subscription (GET .../active/) as StartActive
ActiveRead(r, u) ==
    /\ CanRead(r)
    /\ LET q == NewReq("active", u, NoHeader, 0, 0)
           a == ActiveOf(subs, u)
       IN
       IF cache[ActiveKey(u)].hit THEN Return(r, q, 200, cache[ActiveKey(u)].body)
       ELSE IF a = {} THEN Return(r, q, 404, {})
       ELSE IF Cardinality(a) > 1 THEN Return(r, q, 500, {})
       ELSE Continue(r, [q EXCEPT !.pc = "a_set", !.view = {Proj(i, subs[i]) : i \in a}])
    /\ UNCHANGED <<subs, nextId, plans, features, planpages, cache, pagecache, now, started>>

\* cache.set(active_subscription_<u>, serializer.data, timeout=60 * 10),
\* then the response
ActiveStore(r) ==
    LET q == req[r] IN
    /\ q.pc = "a_set"
    /\ cache' = [cache EXCEPT ![ActiveKey(q.user)] = cache_set(q.view, ActiveTTL)]
    /\ Return(r, q, 200, q.view)
    /\ UNCHANGED <<subs, nextId, plans, features, planpages, pagecache, now, started>>

\* PlanViewSet.retrieve under cache_page(60 * 15), as PlanRetrieve
PlanRead(r, u, p) ==
    /\ CanRead(r)
    /\ LET q == NewReq("plan_retrieve", u, NoHeader, 0, p) IN
       IF planpages[p].hit
       THEN /\ Return(r, q, 200, planpages[p].body)
            /\ UNCHANGED planpages
       ELSE IF p \notin plan_queryset
       THEN /\ Return(r, q, 404, {})
            /\ UNCHANGED planpages
       ELSE /\ Return(r, q, 200, {PlanSerializer(p)})
            /\ planpages' = [planpages EXCEPT ![p] =
                               cache_set({PlanSerializer(p)}, PlanTTL)]
    /\ UNCHANGED <<subs, nextId, plans, features, cache, pagecache, now, started>>

(* ------------------- list with its pagination query -------------------- *)
\* the values of ?page= and ?page_size= a list request is sent with
\* (a page_size of 2 holds every record a user has here, as the default does)
PageNumbers == 1..2
PageSizes == 1..2

\* get_queryset().order_by("-start_date") for user u: the orders the store
\* may return the ids in (rows of equal start_date in either order)
ordered_queryset(t, u) ==
    LET S == get_queryset(t, u)
        n == Cardinality(S)
    IN {s \in [1..n -> S] :
          /\ \A i \in 1..n : \A j \in 1..n : s[i] = s[j] => i = j
          /\ \A i \in 1..n : \A j \in 1..n :
                i < j => t[s[i]].start_date >= t[s[j]].start_date}

\* Paginator.num_pages for n rows (an empty first page is allowed)
num_pages(n, size) == IF n = 0 THEN 1 ELSE (n + size - 1) \div size

\* StandardResultsSetPagination.get_paginated_response for the rows s of
\* table t: count, the pages next and previous link to (0 for null), results
paginated_response(t, s, page, size) ==
    LET n     == Len(s)
        first == (page - 1) * size + 1
        last  == IF page * size < n THEN page * size ELSE n
    IN [count |-> n,
        next |-> IF page < num_pages(n, size) THEN page + 1 ELSE 0,
        previous |-> IF page > 1 THEN page - 1 ELSE 0,
        results |-> [k \in 1..(last - first + 1) |->
                        Proj(s[first + k - 1], t[s[first + k - 1]])]]

\* record rec with the query parameters of the request
WithQuery(rec, page, size) ==
    [f \in DOMAIN rec \cup {"page", "size"} |->
        IF f = "page" THEN page ELSE IF f = "size" THEN size ELSE rec[f]]

\* the responses cache_page holds for one Authorization header, one per URL
\* (query string included), and the lookup of one
PageEntries(e) == IF e.hit THEN e.body ELSE {}
PageLookup(e, page, size) ==
    {x \in PageEntries(e) : x.page = page /\ x.size = size}

\* list (GET ?page=&page_size=): cache_page looks the response up under the
\* URL and the Authorization header; on a miss the view looks up
\* user_subscriptions_<u>, whatever the query, and on a miss there paginates
\* the queryset; a page out of range is answered 404
StartListPaged(r, u, h, page, size) ==
    /\ CanStart(r)
    /\ started' = started + 1
    /\ LET q == NewReq("list", u, h, 0, 0) IN
       IF PageLookup(pagecache[h], page, size) # {}
       THEN /\ \E x \in PageLookup(pagecache[h], page, size) :
                  resp' = WithQuery(Response(q, 200, x.data), page, size)
            /\ UNCHANGED <<req, pagecache>>
       ELSE IF cache[ListKey(u)].hit
       THEN /\ resp' = WithQuery(Response(q, 200, cache[ListKey(u)].body), page, size)
            /\ pagecache' = [pagecache EXCEPT ![h] =
                  Entry(PageEntries(pagecache[h]) \cup
                        {[page |-> page, size |-> size,
                          data |-> cache[ListKey(u)].body]})]
            /\ UNCHANGED req
       ELSE IF page > num_pages(Cardinality(get_queryset(subs, u)), size)
       THEN /\ resp' = WithQuery(Response(q, 404, {}), page, size)
            /\ UNCHANGED <<req, pagecache>>
       ELSE /\ \E s \in ordered_queryset(subs, u) :
                  req' = [req EXCEPT ![r] =
                     WithQuery([q EXCEPT !.pc = "l_set",
                                   !.view = paginated_response(subs, s, page, size)],
                               page, size)]
            /\ resp' = NoResponse
            /\ UNCHANGED pagecache
    /\ UNCHANGED <<subs, nextId, plans, features, planpages, cache, now>>

\* cache.set(user_subscriptions_<u>, response.data), then cache_page stores
\* the rendered response under the URL and the header
ListSetPaged(r) ==
    LET q == req[r] IN
    /\ q.pc = "l_set"
    /\ cache' = [cache EXCEPT ![ListKey(q.user)] = Entry(q.view)]
    /\ pagecache' = [pagecache EXCEPT ![q.hdr] =
          Entry(PageEntries(pagecache[q.hdr]) \cup
                {[page |-> q.page, size |-> q.size, data |-> q.view]})]
    /\ req' = [req EXCEPT ![r] = Idle]
    /\ resp' = WithQuery(Response(q, 200, q.view), q.page, q.size)
    /\ UNCHANGED <<subs, nextId, plans, features, planpages, now, started>>

(* -------------------------- specifications ----------------------------- *)
Reasons == {<<>>, <<"reason">>}

\* the write requests and their steps
Writes ==
    \/ \E r \in Slots, u \in Users, p \in Plans : StartCreate(r, u, p)
    \/ \E r \in Slots, t \in 1..MaxClock : CreateDeactivate(r, t)
    \/ \E r \in Slots, t \in 1..MaxClock : CreateInsert(r, t)
    \/ \E r \in Slots : CreateCommit(r)
    \/ \E r \in Slots : StoreFailure(r)
    \/ \E r \in Slots, u \in Users, id \in TargetIds, p \in Plans :
          StartUpdate(r, u, id, p)
    \/ \E r \in Slots : UpdateSave(r)
    \/ \E r \in Slots : UpdateCommit(r)
    \/ \E r \in Slots, u \in Users, id \in TargetIds : StartDestroy(r, u, id)
    \/ \E r \in Slots : DestroyDelete(r)
    \/ \E r \in Slots : DestroyCommit(r)
    \/ \E r \in Slots, u \in Users, id \in TargetIds : StartDeactivate(r, u, id)
    \/ \E r \in Slots, t \in 1..MaxClock : DeactivateSave(r, t)
    \/ \E r \in Slots : DeactivateSignal(r)

\* the read requests and their steps
Reads ==
    \/ \E r \in Slots, u \in Users, id \in TargetIds : Retrieve(r, u, id)
    \/ \E r \in Slots, u \in Users : \E h \in {NoHeader, u} : StartList(r, u, h)
    \/ \E r \in Slots : ListSet(r)
    \/ \E r \in Slots, u \in Users : StartActive(r, u)
    \/ \E r \in Slots : ActiveSet(r)

\* Subscription.deactivate called on an instance the caller holds, as the
\* model tests do
Calls ==
    \/ \E r \in Slots, id \in TargetIds, n \in Reasons : StartCall(r, id, n)
    \/ \E r \in Slots, n \in Reasons : CallAgain(r, n)

\* the API: every request of the viewset
Next == Writes \/ Reads

Spec == Init /\ [][Next]_vars

\* the write requests alone
NextWrites == Writes

SpecWrites == Init /\ [][NextWrites]_vars

\* the write requests together with direct calls of the model method
NextCalls == Writes \/ Calls

SpecCalls == Init /\ [][NextCalls]_vars

\* the service when user 1 already holds an active subscription to plan 1:
\* the state of store and caches after that user's first create has committed
InitSubscribed ==
    /\ subs = Put(NoTx, 1, objects_create(1, 1, 1))
    /\ nextId = 2
    /\ plans = [p \in Plans |-> [is_active |-> p # 3]]
    /\ features = [f \in Features |-> [is_active |-> TRUE]]
    /\ planpages = [k \in PlanPages |-> Miss]
    /\ cache = [k \in Keys |-> Miss]
    /\ pagecache = [h \in Hdrs |-> Miss]
    /\ req = [r \in Slots |-> Idle]
    /\ resp = NoResponse
    /\ now = 1
    /\ started = 0

\* every request of the viewset, from that state
SpecSubscribed == InitSubscribed /\ [][Next]_vars

\* saves of features and plans
Saves ==
    \/ \E f \in Features, a \in BOOLEAN : SaveFeature(f, a)
    \/ \E p \in Plans, a \in BOOLEAN : SavePlan(p, a)

\* the read requests of PlanViewSet
PlanReads ==
    \/ \E r \in Slots, u \in Users : PlanList(r, u)
    \/ \E r \in Slots, u \in Users, p \in Plans : PlanRetrieve(r, u, p)

\* feature and plan saves with the reads of both viewsets, while user 1
\* holds a subscription
NextCatalog == Saves \/ Reads \/ PlanReads

SpecCatalog == InitSubscribed /\ [][NextCatalog]_vars

\* a cache call of a read request raises
CacheFailures ==
    \/ \E r \in Slots, u \in Users : CacheGetFails(r, "active", u, NoHeader)
    \/ \E r \in Slots, u \in Users : \E h \in {NoHeader, u} : CacheGetFails(r, "list", u, h)
    \/ \E r \in Slots : CacheSetFails(r)

\* the read requests with a cache backend that can fail, while user 1 holds
\* a subscription
NextCacheDown == Reads \/ CacheFailures

SpecCacheDown == InitSubscribed /\ [][NextCacheDown]_vars

\* create, change of plan and deactivate requests with a cache backend whose
\* delete can fail
NextDeleteFails ==
    \/ \E r \in Slots, u \in Users, p \in Plans : StartCreate(r, u, p)
    \/ \E r \in Slots, t \in 1..MaxClock : CreateDeactivate(r, t)
    \/ \E r \in Slots, t \in 1..MaxClock : CreateInsert(r, t)
    \/ \E r \in Slots : CreateCommit(r)
    \/ \E r \in Slots, u \in Users, id \in TargetIds, p \in Plans :
          StartUpdate(r, u, id, p)
    \/ \E r \in Slots : UpdateSave(r)
    \/ \E r \in Slots : UpdateCommit(r)
    \/ \E r \in Slots, u \in Users, id \in TargetIds : StartDeactivate(r, u, id)
    \/ \E r \in Slots, t \in 1..MaxClock : DeactivateSave(r, t)
    \/ \E r \in Slots : DeactivateSignal(r)
    \/ \E r \in Slots : CacheDeleteFails(r)

SpecDeleteFails == Init /\ [][NextDeleteFails]_vars

\* list and active-subscription reads carrying duration_days, with
\* deactivations, from the state after user 1's first create
NextDuration ==
    \/ \E r \in Slots, u \in Users, t \in 1..MaxClock : \E h \in {NoHeader, u} :
          StartListTimed(r, u, h, t)
    \/ \E r \in Slots : ListSet(r)
    \/ \E r \in Slots, u \in Users, t \in 1..MaxClock : StartActiveTimed(r, u, t)
    \/ \E r \in Slots : ActiveSet(r)
    \/ \E r \in Slots, u \in Users, id \in TargetIds : StartDeactivate(r, u, id)
    \/ \E r \in Slots, t \in 1..MaxClock : DeactivateSave(r, t)
    \/ \E r \in Slots : DeactivateSignal(r)

SpecDuration == InitSubscribed /\ [][NextDuration]_vars

\* reads of both viewsets without end by the users holding a subscription
\* (lists sent with the user's own Authorization header), entries expiring
\* as time passes, and at most MaxReqs deactivate requests and saves of the
\* features of the plans subscribed to (so that in every behaviour writes
\* stop), from the state after user 1's first create
Subscribers == {subs[i].user : i \in DOMAIN subs}
Subscribed == {subs[i].plan : i \in DOMAIN subs}

NextExpiry ==
    \/ Tick
    \/ \E r \in Slots, u \in Subscribers : ListRead(r, u, u)
    \/ \E r \in Slots : ListStore(r)
    \/ \E r \in Slots, u \in Subscribers : ActiveRead(r, u)
    \/ \E r \in Slots : ActiveStore(r)
    \/ \E r \in Slots, u \in Subscribers, p \in Subscribed : PlanRead(r, u, p)
    \/ \E p \in Subscribed, a \in BOOLEAN : \E f \in plan_features[p] : SaveFeature(f, a)
    \/ \E r \in Slots, u \in Users, id \in TargetIds : StartDeactivate(r, u, id)
    \/ \E r \in Slots, t \in 1..MaxClock : DeactivateSave(r, t)
    \/ \E r \in Slots : DeactivateSignal(r)

\* time passes, and a worker that has built its view goes on to store and
\* return it (a request handler never waits)
FairExpiry ==
    /\ WF_vars(Tick)
    /\ \A r \in Slots : WF_vars(ListStore(r)) /\ WF_vars(ActiveStore(r))

SpecExpiry == InitSubscribed /\ [][NextExpiry]_vars /\ FairExpiry

\* create, change of plan and deactivate requests with the list and
\* active-subscription reads and the reads of PlanViewSet, from the state
\* after user 1's first create
NextFrame ==
    \/ \E r \in Slots, u \in Users, p \in Plans : StartCreate(r, u, p)
    \/ \E r \in Slots, t \in 1..MaxClock : CreateDeactivate(r, t)
    \/ \E r \in Slots, t \in 1..MaxClock : CreateInsert(r, t)
    \/ \E r \in Slots : CreateCommit(r)
    \/ \E r \in Slots, u \in Users, id \in TargetIds, p \in Plans :
          StartUpdate(r, u, id, p)
    \/ \E r \in Slots : UpdateSave(r)
    \/ \E r \in Slots : UpdateCommit(r)
    \/ \E r \in Slots, u \in Users, id \in TargetIds : StartDeactivate(r, u, id)
    \/ \E r \in Slots, t \in 1..MaxClock : DeactivateSave(r, t)
    \/ \E r \in Slots : DeactivateSignal(r)
    \/ \E r \in Slots, u \in Users : StartList(r, u, u)
    \/ \E r \in Slots : ListSet(r)
    \/ \E r \in Slots, u \in Users : StartActive(r, u)
    \/ \E r \in Slots : ActiveSet(r)
    \/ PlanReads

SpecFrame == InitSubscribed /\ [][NextFrame]_vars

\* list requests with their pagination query, and create requests, from the
\* state after user 1's first create
NextPaged ==
    \/ \E r \in Slots, u \in Users, page \in PageNumbers, size \in PageSizes :
          \E h \in {NoHeader, u} : StartListPaged(r, u, h, page, size)
    \/ \E r \in Slots : ListSetPaged(r)
    \/ \E r \in Slots, u \in Users, p \in Plans : StartCreate(r, u, p)
    \/ \E r \in Slots, t \in 1..MaxClock : CreateDeactivate(r, t)
    \/ \E r \in Slots, t \in 1..MaxClock : CreateInsert(r, t)
    \/ \E r \in Slots : CreateCommit(r)

SpecPaged == InitSubscribed /\ [][NextPaged]_vars

(* ------------------------------ claims --------------------------------- *)
\* slot r takes a step of a create request
CreateStep(r) == req[r].op = "create" /\ req'[r] # req[r]

\* slot r commits a create and answers 201
CreateCommitted(r) ==
    req[r].pc = "c_commit" /\ req'[r].pc = "done" /\ resp'.status = 201

\* C1: in every reachable state each user has at most one subscription
\* record with is_active = true.
C1_AtMostOneActive ==
    \A u \in Users : Cardinality(ActiveOf(subs, u)) <= 1

\* a create has lost against the constraint while the user holds one active
\* and one ended subscription
C1_Witness ==
    \E u \in Users :
        /\ Cardinality(ActiveOf(subs, u)) = 1
        /\ Cardinality(get_queryset(subs, u)) >= 2
        /\ resp.op = "create" /\ resp.user = u /\ resp.status = 500

\* C2: a successful create inserts exactly one new record, active and on the
\* requested plan; the subscription that was active at the call is inactive
\* with a non-null end_date afterwards; the user's only active subscription
\* is the new one.
C2_CreateEffect ==
    [][\A r \in Slots : CreateCommitted(r) =>
         LET q == req[r] IN
         /\ \E n \in Ids :
               /\ n \notin DOMAIN subs
               /\ DOMAIN subs' = DOMAIN subs \cup {n}
               /\ subs'[n].is_active
               /\ subs'[n].plan = q.plan
               /\ subs'[n].user = q.user
               /\ ActiveOf(subs', q.user) = {n}
         /\ q.id # 0 => /\ q.id \in DOMAIN subs'
                        /\ ~subs'[q.id].is_active
                        /\ subs'[q.id].end_date # None]_vars

\* a create has just answered 201 for a user whose earlier subscription it
\* found active: that one is ended and one other is active
C2_Witness ==
    /\ resp.op = "create" /\ resp.status = 201 /\ resp.id # 0
    /\ resp.id \in DOMAIN subs
    /\ ~subs[resp.id].is_active
    /\ Cardinality(ActiveOf(subs, resp.user)) = 1

\* C3: create is all-or-nothing: no step of a create request other than its
\* successful commit changes the committed store (so a create that fails
\* after deactivating the prior subscription leaves the store as it was), and
\* the commit makes the deactivation and the new record visible together.
C3_CreateAtomic ==
    [][\A r \in Slots :
         /\ (CreateStep(r) /\ ~CreateCommitted(r)) => subs' = subs
         /\ CreateCommitted(r) =>
               /\ \E n \in DOMAIN subs' \ DOMAIN subs : subs'[n].is_active
               /\ req[r].id # 0 => ~subs'[req[r].id].is_active]_vars

\* a create has deactivated the prior subscription inside its transaction
\* and not inserted yet: the committed store still shows the prior one active
C3_Witness ==
    \E r \in Slots :
        /\ req[r].op = "create" /\ req[r].pc = "c_insert" /\ req[r].id # 0
        /\ ~req[r].inst.is_active
        /\ req[r].id \in DOMAIN subs
        /\ subs[req[r].id].is_active /\ subs[req[r].id].end_date = None

\* C4: concurrent creates of one user: no two of them hold an uncommitted
\* new subscription at once; a create whose INSERT meets an active
\* subscription of the user (the winner's) fails with an error response and
\* leaves the store unchanged, its transaction discarded; after a commit the
\* committed new subscription is the user's only active one.
C4_RaceLoserFails ==
    [][/\ \A r1 \in Slots : \A r2 \in Slots \ {r1} :
            ~(/\ req'[r1].pc = "c_commit" /\ req'[r2].pc = "c_commit"
              /\ req'[r1].user = req'[r2].user)
       /\ \A r \in Slots :
            /\ (/\ req[r].pc = "c_insert" /\ req'[r] # req[r]
                /\ ActiveOf(Seen(req[r]), req[r].user) # {})
                  => /\ resp'.status = 500 /\ resp'.op = "create"
                     /\ subs' = subs
                     /\ req'[r] = Idle
            /\ CreateCommitted(r) =>
                  \A i \in ActiveOf(subs', req[r].user) : i \in DOMAIN req[r].txw]_vars

\* a create that saw no active subscription of its user has been answered
\* with an error while the user now has one: it lost the race
C4_Witness ==
    /\ resp.op = "create" /\ resp.status = 500 /\ resp.id = 0
    /\ Cardinality(ActiveOf(subs, resp.user)) = 1
    /\ \A r \in Slots : req[r].pc = "done"

\* a write of user u is committed and not yet acknowledged to its caller
UnackedWrite(u) == \E r \in Slots : req[r].pc = "d_signal" /\ req[r].user = u

\* the active-subscription view of user u over table t
ActiveView(t, u) == {Proj(i, t[i]) : i \in ActiveOf(t, u)}

\* C5: a list or active-subscription read that starts when every committed
\* write of its user has been acknowledged returns the view of the store as
\* it is (no stale hit).  Stated for the reads that carry no other user's
\* cache entries: active lookups, and lists sent with the user's own
\* Authorization header.
C5_NoStaleRead ==
    [][(/\ started' = started + 1
        /\ resp'.status = 200
        /\ \/ resp'.op = "active"
           \/ resp'.op = "list" /\ resp'.hdr = resp'.user
        /\ ~UnackedWrite(resp'.user))
          => resp'.body = IF resp'.op = "list" THEN View(subs, resp'.user)
                          ELSE ActiveView(subs, resp'.user)]_vars

\* C6: no response to a request of user A holds a subscription of another
\* user.
C6_Isolation ==
    \A x \in resp.body : x.user = resp.user

\* the requests addressed to a subscription id
IdOps == {"retrieve", "update", "deactivate", "destroy"}

\* user u does not own a stored subscription id
NotOwned(u, id) == id \notin DOMAIN subs \/ subs[id].user # u

\* C7: a request addressed to a subscription id by a user who does not own
\* it is answered 404 with an empty body, exactly as for an id that is not
\* stored, never proceeds to a write, and leaves the store and every cache
\* entry unchanged.
C7_NotOwnedIsNotFound ==
    [][started' = started + 1 =>
         /\ \A r \in Slots :
               (req'[r] # req[r] /\ req'[r].op \in IdOps)
                  => ~NotOwned(req'[r].user, req'[r].id)
         /\ (resp'.op \in IdOps /\ NotOwned(resp'.user, resp'.id))
               => /\ resp'.status = 404 /\ resp'.body = {}
                  /\ UNCHANGED <<subs, cache, pagecache>>]_vars

\* a deactivate of another user's active subscription has been answered 404
\* while that owner's list is cached; the subscription is still active
C7_Witness ==
    /\ resp.op = "deactivate" /\ resp.status = 404
    /\ resp.id \in DOMAIN subs
    /\ subs[resp.id].user # resp.user
    /\ subs[resp.id].is_active
    /\ cache[ListKey(subs[resp.id].user)].hit

\* C8: a create with an inactive plan is answered 400 at once and changes
\* nothing: no record inserted, the user's active subscription untouched, no
\* cache entry removed; no create proceeds with an inactive plan.
C8_InactivePlanRejected ==
    [][started' = started + 1 =>
         /\ \A r \in Slots :
               (req'[r] # req[r] /\ req'[r].op = "create")
                  => plans[req'[r].plan].is_active
         /\ (resp'.op = "create" /\ ~plans[resp'.plan].is_active)
               => /\ resp'.status = 400
                  /\ UNCHANGED <<subs, nextId, cache, pagecache>>]_vars

\* a create with an inactive plan has been answered 400 for a user who has
\* an active subscription and a cached list
C8_Witness ==
    /\ resp.op = "create" /\ resp.status = 400
    /\ ~plans[resp.plan].is_active
    /\ \E i \in ActiveOf(subs, resp.user) : subs[i].end_date = None
    /\ cache[ListKey(resp.user)].hit

\* C9: in every reachable state, for every subscription, end_date is null
\* if and only if is_active is true.
C9_EndDateIffInactive ==
    \A i \in DOMAIN subs : (subs[i].end_date = None) <=> subs[i].is_active

\* a user holds an ended subscription and an active one
C9_Witness ==
    \E i \in DOMAIN subs : \E j \in DOMAIN subs :
        /\ ~subs[i].is_active /\ subs[i].end_date # None
        /\ subs[j].is_active /\ subs[j].user = subs[i].user

\* C10: deactivate called on a subscription that an earlier deactivate has
\* ended writes nothing, so the state after two calls is the state after
\* one: the model method called on an inactive instance, whatever reason is
\* passed, leaves store and caches as they are and returns normally, and
\* the view's request on an inactive subscription leaves them as they are.
C10_DeactivateIdempotent ==
    [][/\ \A r \in Slots :
            (req[r].pc = "d_save" /\ ~req[r].inst.is_active /\ req'[r] # req[r])
               => /\ UNCHANGED <<subs, cache, pagecache>>
                  /\ resp'.status = 200
       /\ (/\ started' = started + 1
           /\ resp'.op = "deactivate"
           /\ resp'.id \in DOMAIN subs
           /\ ~subs[resp'.id].is_active)
             => UNCHANGED <<subs, cache, pagecache>>]_vars

\* deactivate has just returned from a call with a reason on an instance it
\* had deactivated before: the stored record is ended and carries no note
C10_Witness ==
    \E r \in Slots :
        /\ req[r].op = "deactivate_call" /\ req[r].pc = "done"
        /\ req[r].notes # <<>> /\ ~req[r].inst.is_active
        /\ resp.op = "deactivate_call" /\ resp.status = 200
        /\ req[r].id \in DOMAIN subs
        /\ subs[req[r].id] = req[r].inst
        /\ subs[req[r].id].notes = <<>>

\* C11: a deactivate request for a subscription of the requester that is
\* already inactive is answered with success.
C11_InactiveDeactivateSucceeds ==
    [][(/\ started' = started + 1
        /\ resp'.op = "deactivate"
        /\ resp'.id \in get_queryset(subs, resp'.user)
        /\ ~subs[resp'.id].is_active)
          => resp'.status = 200]_vars

\* C12: a change of plan (change_plan, update) of a subscription of the
\* requester to a plan that is inactive, or that is the plan the subscription
\* has when the request is validated, is answered 400 at once with store,
\* keyed cache and response cache unchanged; no such request proceeds to save.
C12_ChangePlanRejected ==
    [][started' = started + 1 =>
         /\ \A r \in Slots :
               (req'[r] # req[r] /\ req'[r].op = "update")
                  => /\ plans[req'[r].plan].is_active
                     /\ subs[req'[r].id].plan # req'[r].plan
         /\ (/\ resp'.op = "update"
             /\ resp'.id \in get_queryset(subs, resp'.user)
             /\ \/ ~plans[resp'.plan].is_active
                \/ subs[resp'.id].plan = resp'.plan)
               => /\ resp'.status = 400
                  /\ UNCHANGED <<subs, cache, pagecache>>]_vars

\* a change to the plan the subscription already has was answered 400 while
\* the owner's list is cached
C12_Witness ==
    /\ resp.op = "update" /\ resp.status = 400
    /\ resp.id \in get_queryset(subs, resp.user)
    /\ subs[resp.id].plan = resp.plan
    /\ plans[resp.plan].is_active
    /\ cache[ListKey(resp.user)].hit

\* C13: the commit of a successful change of plan leaves the set of stored
\* subscriptions as it is and changes nothing of the stored record but its
\* plan, which becomes the requested one: user, start_date, end_date,
\* is_active and notes stay as stored, also when they were written by
\* another request after the change of plan loaded the record.
C13_ChangePlanFrame ==
    [][\A r \in Slots :
         (/\ req[r].pc = "u_commit" /\ req'[r].pc = "done"
          /\ resp'.op = "update" /\ resp'.status = 200)
            => /\ req[r].id \in DOMAIN subs
               /\ subs' = [subs EXCEPT ![req[r].id].plan = req[r].plan]]_vars

\* a change of plan has answered 200 from the instance it loaded as active
\* while the stored record, deactivated in between, is ended and on the new plan
C13_Witness ==
    /\ resp.op = "update" /\ resp.status = 200
    /\ resp.id \in DOMAIN subs
    /\ \E x \in resp.body : x.is_active /\ x.end_date = None
    /\ ~subs[resp.id].is_active /\ subs[resp.id].end_date # None
    /\ subs[resp.id].plan = resp.plan

\* C14: an active-subscription read that arrives when no other request is
\* in progress returns the subscription that is the user's active one in the
\* store at that moment, and 404 (none) exactly when the store holds no
\* active one for the user.
C14_ActiveReadMatchesStore ==
    [][(/\ started' = started + 1
        /\ resp'.op = "active"
        /\ \A r \in Slots : req[r].pc = "done")
          => IF ActiveOf(subs, resp'.user) = {}
             THEN resp'.status = 404
             ELSE /\ resp'.status = 200
                  /\ resp'.body = ActiveView(subs, resp'.user)]_vars

\* C15: inactive is terminal: a stored subscription that is inactive is
\* inactive after every step that keeps it, whatever requests run.
C15_InactiveIsTerminal ==
    [][\A i \in DOMAIN subs \cap DOMAIN subs' :
         ~subs[i].is_active => ~subs'[i].is_active]_vars

\* a change of plan has been carried out on a subscription it loaded
\* inactive: the record has the new plan and is still inactive
C15_Witness ==
    /\ resp.op = "update" /\ resp.status = 200
    /\ resp.id \in DOMAIN subs
    /\ \A x \in resp.body : ~x.is_active
    /\ ~subs[resp.id].is_active
    /\ subs[resp.id].plan = resp.plan

\* C16: no step of any request removes a stored subscription: the set of
\* stored subscriptions never shrinks.
C16_NeverDeleted ==
    [][DOMAIN subs \subseteq DOMAIN subs']_vars

\* C17: after a feature has been saved inactive, a list read (sent with the
\* user's own Authorization header) or an active-subscription read that
\* arrives when no other request is in progress shows, for every
\* subscription, no feature that is inactive and a feature_count equal to
\* the number of active features of its plan.
C17_FeatureSaveShown ==
    [][(/\ started' = started + 1
        /\ resp'.status = 200
        /\ \/ resp'.op = "active"
           \/ resp'.op = "list" /\ resp'.hdr = resp'.user
        /\ \A r \in Slots : req[r].pc = "done")
          => \A x \in resp'.body :
                /\ \A k \in DOMAIN x.features : features[x.features[k].id].is_active
                /\ x.feature_count = get_feature_count(x.plan)]_vars

\* C18: in every response, the features listed for a plan are all active
\* (as recorded in the response itself) and in the order of their names.
C18_FeaturesActiveSorted ==
    \A x \in resp.body : \A k \in DOMAIN x.features :
        /\ x.features[k].is_active
        /\ k > 1 => x.features[k - 1].id < x.features[k].id

\* C19: a plan listing returns exactly the plans that are active as saved,
\* and a plan detail read returns the plan as saved if it is active and
\* 404 otherwise: no plan view from before a plan's save is served after it.
C19_PlanSaveShown ==
    [][started' = started + 1 =>
         /\ resp'.op = "plan_list"
               => /\ {x.id : x \in resp'.body} = plan_queryset
                  /\ \A x \in resp'.body : x.is_active = plans[x.id].is_active
         /\ resp'.op = "plan_retrieve"
               => IF resp'.plan \in plan_queryset
                  THEN /\ resp'.status = 200
                       /\ \A x \in resp'.body :
                             x.id = resp'.plan /\ x.is_active = plans[x.id].is_active
                  ELSE resp'.status = 404]_vars

\* C20: a cache failure is not fatal to a read: every list and every
\* active-subscription read is answered with the view (200) or, for the
\* active lookup, with none (404), never with an error.
C20_CacheFailureNotFatal ==
    [][resp'.op \in {"list", "active"} => resp'.status \in {200, 404}]_vars

\* C21: a failing cache invalidation does not fail the write: a create whose
\* INSERT is admitted and a change of plan whose UPDATE is carried out go on
\* to their commit, and a deactivate whose save() is committed answers 200.
C21_InvalidationFailureHarmless ==
    [][\A r \in Slots : req'[r] # req[r] =>
         /\ (/\ req[r].pc = "c_insert" /\ ~InsertBlocked(r, req[r].user)
             /\ ActiveOf(Seen(req[r]), req[r].user) = {})
               => req'[r].pc = "c_commit"
         /\ (req[r].pc = "u_save" /\ ~Locked(r, req[r].id))
               => req'[r].pc = "u_commit"
         /\ req[r].pc = "d_signal" => resp'.status = 200]_vars

\* C22: a write request deletes its user's cache entries only once its
\* transaction has committed: a step of a request that removes an entry of
\* its user leaves the request without uncommitted writes.
C22_InvalidationAfterCommit ==
    [][\A r \in Slots :
         (/\ req'[r] # req[r] /\ req[r].user \in Users
          /\ \E k \in {ListKey(req[r].user), ActiveKey(req[r].user)} :
                cache[k].hit /\ ~cache'[k].hit)
         => req'[r].txw = NoTx]_vars

\* C23: every successful create, update/change of plan, deactivate and
\* destroy deletes both cache keys of its user between its start and its
\* response, so no entry stored before the request started is left when it
\* returns: success is answered only by a request that has carried out its
\* write, and the step that carries out the write (the deactivate view's
\* signal step included) leaves both keys of the user without an entry.
C23_WritesInvalidateBothKeys ==
    [][\A r \in Slots : req'[r] # req[r] =>
         /\ (/\ req[r].op \in {"create", "update", "destroy", "deactivate"}
             /\ resp'.status \in {200, 201, 204})
               => req[r].pc \in {"c_commit", "u_commit", "x_commit", "d_signal"}
         /\ (\/ (/\ req'[r].pc \in {"c_commit", "u_commit", "x_commit"}
                 /\ req'[r].pc # req[r].pc)
             \/ (req[r].pc = "d_signal" /\ resp'.status = 200))
               => /\ ~cache'[ListKey(req[r].user)].hit
                  /\ ~cache'[ActiveKey(req[r].user)].hit]_vars

\* a deactivate has answered 200 after a listing that showed the record
\* active had been stored (the page cache still holds it), and both keys of
\* the user are without an entry
C23_Witness ==
    /\ resp.op = "deactivate" /\ resp.status = 200
    /\ \E row \in pagecache[NoHeader].body :
          row.id = resp.id /\ row.user = resp.user /\ row.is_active
    /\ ~cache[ListKey(resp.user)].hit /\ ~cache[ActiveKey(resp.user)].hit

\* C24: end_date is written once: a stored record whose end_date is set
\* keeps that end_date in every step, whatever the interleaving of the
\* deactivate and create requests that loaded it while it was active.
C24_EndDateSetOnce ==
    [][\A i \in DOMAIN subs :
         (subs[i].end_date # None /\ i \in DOMAIN subs')
            => subs'[i].end_date = subs[i].end_date]_vars

\* C25: every stored record whose end_date is set started strictly before
\* it ended, a record deactivated at the clock reading of its creation
\* included.
C25_StartBeforeEnd ==
    \A i \in DOMAIN subs :
        subs[i].end_date # None => subs[i].start_date < subs[i].end_date

\* C26: start_date is assigned by the INSERT and never written again: every
\* step leaves the start_date of every record that stays stored as it was.
C26_StartDateFixed ==
    [][\A i \in DOMAIN subs :
         i \in DOMAIN subs' => subs'[i].start_date = subs[i].start_date]_vars

\* a deactivate request has answered 200 at a later clock reading than the
\* one its record was inserted at, and the record still starts at that reading
C26_Witness ==
    /\ resp.op = "deactivate" /\ resp.status = 200
    /\ resp.id \in DOMAIN subs
    /\ subs[resp.id].start_date = 1 /\ subs[resp.id].end_date = 2

\* C27: feature_count of a projection is the number of features of its plan
\* that are active in the store when the projection is built: this holds of
\* every subscription view built by list, active_subscription and retrieve,
\* and of every plan page built by PlanViewSet, in the step that builds it.
C27_FeatureCountActive ==
    [][/\ \A r \in Slots : req'[r].view # req[r].view =>
            \A row \in req'[r].view :
               row.feature_count =
                 Cardinality({f \in plan_features[row.plan] : features[f].is_active})
       /\ (resp'.op = "retrieve" /\ resp'.status = 200) =>
            \A row \in resp'.body :
               row.feature_count =
                 Cardinality({f \in plan_features[row.plan] : features[f].is_active})
       /\ \A k \in PlanPages : (planpages'[k] # planpages[k]) =>
            \A row \in planpages'[k].body :
               row.feature_count =
                 Cardinality({f \in plan_features[row.id] : features[f].is_active})]_vars

\* a plan page built from the store lists two features, one of them
\* inactive, and counts one
C27_Witness ==
    /\ resp.op = "plan_retrieve" /\ resp.status = 200
    /\ planpages[resp.plan] = Entry(resp.body)
    /\ \E row \in resp.body :
          /\ row.feature_count = 1 /\ Len(row.features) = 2
          /\ \E k \in 1..2 : ~features[row.features[k].id].is_active

\* C28: the duration of every returned subscription view is that of the
\* time of the read, end_date - start_date for an ended subscription and
\* (time of this read) - start_date for an active one: this holds of every
\* view a read serializes, and of every view a read answers from a cache.
C28_DurationAtReadTime ==
    [][/\ \A r \in Slots : req'[r].view # req[r].view =>
            \A row \in req'[r].view :
               row.duration_days =
                 IF row.end_date # None THEN row.end_date - row.start_date
                 ELSE now' - row.start_date
       /\ (resp'.op \in {"list", "active"} /\ resp'.status = 200 /\ req' = req) =>
            \A row \in resp'.body :
               row.duration_days =
                 IF row.end_date # None THEN row.end_date - row.start_date
                 ELSE now' - row.start_date]_vars

\* the body of the last response, if it answers a read with 200, is the view
\* of the store as it is
ReadsCurrent ==
    resp.status = 200 =>
       /\ resp.op = "list" => resp.body = View(subs, resp.user)
       /\ resp.op = "active" => resp.body = ActiveView(subs, resp.user)
       /\ resp.op = "plan_retrieve" => resp.body = {PlanSerializer(resp.plan)}

\* every entry has at least one and at most its timeout's units of life left
WithinTTL ==
    /\ \A u \in Users :
          /\ cache[ListKey(u)].hit => cache[ListKey(u)].ttl \in 1..ListTTL
          /\ cache[ActiveKey(u)].hit => cache[ActiveKey(u)].ttl \in 1..ActiveTTL
    /\ \A h \in Hdrs : pagecache[h].hit => pagecache[h].ttl \in 1..ListTTL
    /\ \A k \in PlanPages : planpages[k].hit => planpages[k].ttl \in 1..PlanTTL

\* C29: no entry is kept beyond its timeout (5 minutes for the list entries,
\* 10 for the active-subscription entry, 15 for the plan pages), and once
\* writes have stopped every read is eventually, and from then on, answered
\* with the view of the store as it is, also where no invalidation reaches
\* the entry.
C29_StalenessEnds == []WithinTTL /\ <>[]ReadsCurrent

\* writes have stopped, and a plan page that no longer matches the store is
\* served with one unit of its life left
C29_Witness ==
    /\ started = MaxReqs
    /\ resp.op = "plan_retrieve" /\ resp.status = 200
    /\ planpages[resp.plan].hit /\ planpages[resp.plan].ttl = 1
    /\ resp.body = planpages[resp.plan].body
    /\ resp.body # {PlanSerializer(resp.plan)}

\* the step is one of a create, change of plan or deactivate request of user u
WriteStepOf(u) ==
    \/ /\ resp'.status # 0 /\ resp'.user = u
       /\ resp'.op \in {"create", "update", "deactivate"}
    \/ \E r \in Slots :
          /\ req'[r] # req[r] /\ req'[r].pc # "done" /\ req'[r].user = u
          /\ req'[r].op \in {"create", "update", "deactivate"}

\* C30: a step of a create, change of plan or deactivate request of user u
\* removes nothing from the caches but entries under u's two keys, and
\* stores nothing: the entries of every other user, the plan keys, the
\* cache_page entries and the plan pages stay as they are, and so does every
\* subscription record of every other user.
C30_InvalidationPrecise ==
    [][\A u \in Users : WriteStepOf(u) =>
         /\ \A k \in Keys : cache'[k] # cache[k] =>
               k \in {ListKey(u), ActiveKey(u)} /\ cache'[k] = Miss
         /\ pagecache' = pagecache
         /\ planpages' = planpages
         /\ \A i \in DOMAIN subs : subs[i].user # u =>
               i \in DOMAIN subs' /\ subs'[i] = subs[i]]_vars

\* user 2's create has answered 201 while user 1's active-subscription entry
\* and a plan page are in the caches, and user 1's record is stored
C30_Witness ==
    /\ resp.op = "create" /\ resp.status = 201 /\ resp.user = 2
    /\ cache[ActiveKey(1)].hit
    /\ \E k \in PlanPages : planpages[k].hit
    /\ \E i \in DOMAIN subs : subs[i].user = 1

\* C32: an inactive subscription is frozen: no step of an update or
\* change-plan request that loaded the record when it was already inactive
\* changes the stored record, its plan included.
C32_InactiveFrozen ==
    [][\A r \in Slots :
         (/\ req[r].op = "update" /\ req[r].pc # "done"
          /\ ~req[r].inst.is_active
          /\ req[r].id \in DOMAIN subs /\ ~subs[req[r].id].is_active)
            => /\ req[r].id \in DOMAIN subs'
               /\ subs'[req[r].id] = subs[req[r].id]]_vars

\* C33: a "none" answer of the active-subscription lookup is never cached:
\* whatever a step stores under active_subscription_<u> is the view of one
\* active subscription of u, and a 404 of the lookup is answered from the
\* store, which holds no active subscription of the user, with no entry
\* under the key before or after.
C33_NoneNeverCached ==
    [][/\ \A u \in Users :
            (cache'[ActiveKey(u)] # cache[ActiveKey(u)] /\ cache'[ActiveKey(u)].hit)
               => /\ Cardinality(cache'[ActiveKey(u)].body) = 1
                  /\ \A row \in cache'[ActiveKey(u)].body :
                        row.user = u /\ row.is_active
       /\ (resp'.op = "active" /\ resp'.status = 404)
            => /\ ActiveOf(subs, resp'.user) = {}
               /\ ~cache[ActiveKey(resp'.user)].hit
               /\ ~cache'[ActiveKey(resp'.user)].hit]_vars

\* the lookup of a user whose only subscription has ended was answered 404
\* and the key holds no entry
C33_Witness ==
    /\ resp.op = "active" /\ resp.status = 404
    /\ \E i \in DOMAIN subs : subs[i].user = resp.user /\ ~subs[i].is_active
    /\ ~cache[ActiveKey(resp.user)].hit

\* what the store gives user u for a list request of the given page and
\* page_size: the responses with status 200, none when the page is out of range
StoreGives(u, page, size) ==
    IF page > num_pages(Cardinality(get_queryset(subs, u)), size) THEN {}
    ELSE {paginated_response(subs, s, page, size) : s \in ordered_queryset(subs, u)}

\* C31: a list read answered from user_subscriptions_<u> returns what the
\* store would give for the same user, page and page_size: whenever the
\* entry is a response of the store as it is (for some page and page_size),
\* the read is answered with the store's response for the parameters it
\* was sent with.
C31_CachedListMatchesQuery ==
    [][(/\ started' = started + 1
        /\ resp'.op = "list" /\ resp'.status = 200
        /\ resp'.hdr = resp'.user
        /\ PageLookup(pagecache[resp'.hdr], resp'.page, resp'.size) = {}
        /\ cache[ListKey(resp'.user)].hit
        /\ \E page \in PageNumbers, size \in PageSizes :
              cache[ListKey(resp'.user)].body \in StoreGives(resp'.user, page, size))
       => resp'.body \in StoreGives(resp'.user, resp'.page, resp'.size)]_vars

=============================================================================
